---- MODULE Spec2Model ----
(***************************************************************************)
(* MiniDB (src/src/lib.rs): an in-memory map of named tables, each a map   *)
(* of u64 record ids to records, saved as one pretty-printed JSON file per *)
(* table in the store's directory and loaded back by scanning it.          *)
(*                                                                         *)
(* Strings that take part in a path computation (table names, file names)  *)
(* are sequences of one-character strings, so that format!("{}.json", ..), *)
(* PathBuf::join, the operating system's path resolution and               *)
(* Path::extension are computed and not assumed.                           *)
(***************************************************************************)
EXTENDS Integers, Sequences, FiniteSets, TLC

(***************************************************************************)
(* Bounds of the model.                                                    *)
(***************************************************************************)
\* number of operations performed in one behaviour
MaxOps == 5
\* the record ids the callers use, of one and of two decimal digits
Ids == { 9, 10 }

\* the table names the callers pass to create_table and insert: a plain
\* name, the empty string, and a second spelling of the path of "a".
\* No name here starts with "/" or has a ".." component (see Resolve).
TableNames == { <<"a">>, <<>>, <<".", "/", "a">> }

\* the field mappings (Record.data) the callers use
DataSet == { [name |-> "Stan"], [name |-> "Laptop"] }

(***************************************************************************)
(* Record, Table (lib.rs 6-16)                                             *)
(***************************************************************************)
Record(id, data) == [id |-> id, data |-> data]

Records == { Record(i, d) : i \in Ids, d \in DataSet }

\* HashMap::new()
EmptyMap == [k \in {} |-> k]

Table(name, records) == [name |-> name, records |-> records]

\* HashMap::insert: bind key k to v, replacing any former binding
MapInsert(m, k, v) == [x \in (DOMAIN m) \cup {k} |-> IF x = k THEN v ELSE m[x]]

(***************************************************************************)
(* Paths                                                                   *)
(***************************************************************************)
\* format!("{}.json", name)
FileNameOf(name) == name \o <<".", "j", "s", "o", "n">>

\* the components of a relative path, split at "/"
RECURSIVE SplitPath(_, _)
SplitPath(p, cur) ==
    IF p = <<>> THEN <<cur>>
    ELSE IF Head(p) = "/" THEN <<cur>> \o SplitPath(Tail(p), <<>>)
    ELSE SplitPath(Tail(p), Append(cur, Head(p)))

\* self.path.join(rel) as the operating system resolves it below the store's
\* directory: empty and "." components name the directory they stand in.
\* Defined for the relative paths without ".." that TableNames produce.
Resolve(rel) ==
    LET parts == SplitPath(rel, <<>>)
    IN  SelectSeq(parts, LAMBDA c : c # <<>> /\ c # <<".">>)

\* index of the last "." of a file name, 0 when there is none
RECURSIVE LastDot(_, _)
LastDot(f, i) ==
    IF i = 0 THEN 0
    ELSE IF f[i] = "." THEN i
    ELSE LastDot(f, i - 1)

\* path.extension().unwrap_or_default() of a directory entry: the part after
\* the last ".", and nothing when the name is "..", has no "." or has its only
\* "." in front (std::path's rsplit_file_at_dot)
Extension(f) ==
    LET i == LastDot(f, Len(f))
    IN  IF f = <<".", ".">> \/ i = 0 \/ i = 1 THEN <<>>
        ELSE SubSeq(f, i + 1, Len(f))

(***************************************************************************)
(* JSON                                                                    *)
(***************************************************************************)
Digit(n) == <<"0", "1", "2", "3", "4", "5", "6", "7", "8", "9">>[n + 1]

\* a u64 map key as serde_json writes it: its decimal digits
RECURSIVE U64ToStr(_)
U64ToStr(n) == IF n < 10 THEN <<Digit(n)>> ELSE Append(U64ToStr(n \div 10), Digit(n % 10))

DigitValue(c) == CHOOSE n \in 0..9 : Digit(n) = c

\* a u64 map key as serde_json reads it
RECURSIVE StrToU64(_)
StrToU64(s) ==
    IF Len(s) = 1 THEN DigitValue(s[1])
    ELSE 10 * StrToU64(SubSeq(s, 1, Len(s) - 1)) + DigitValue(s[Len(s)])

\* serde_json::to_string_pretty(&table): an object with the fields name and
\* records, records being an object keyed by the stringified record ids
ToStringPretty(table) ==
    [valid   |-> TRUE,
     name    |-> table.name,
     records |-> [k \in { U64ToStr(i) : i \in DOMAIN table.records } |->
                     table.records[CHOOSE i \in DOMAIN table.records : U64ToStr(i) = k]]]

\* a file whose text is no JSON table
Garbage == [valid |-> FALSE, name |-> <<>>, records |-> EmptyMap]

\* serde_json::from_str::<Table>(&data), for a text that parses
FromStr(text) ==
    [name    |-> text.name,
     records |-> [i \in { StrToU64(k) : k \in DOMAIN text.records } |->
                     text.records[U64ToStr(i)]]]

(***************************************************************************)
(* The store's directory                                                   *)
(*   exists: the directory exists                                          *)
(*   creatable: create_dir_all can create it when it is missing            *)
(*   files:  resolved path below the directory -> text of the file         *)
(*   dirs:   resolved paths of the subdirectories                          *)
(* A resolved path is the sequence of its components.                      *)
(***************************************************************************)
Dir(files, dirs) ==
    [exists |-> TRUE, creatable |-> TRUE, files |-> files, dirs |-> dirs]

\* fs::create_dir_all(path): Ok when the directory exists afterwards
CreateDirAll(d) == IF d.exists \/ d.creatable THEN [d EXCEPT !.exists = TRUE] ELSE d

\* fs::write(self.path.join(rel), text): creates or truncates the file and
\* writes the whole text; fails when the parent directory is missing or the
\* path is a directory
CanWrite(d, rel) ==
    LET p == Resolve(rel)
    IN  /\ d.exists
        /\ p # <<>>
        /\ p \notin d.dirs
        /\ (Len(p) > 1 => SubSeq(p, 1, Len(p) - 1) \in d.dirs)

\* a write that appends to an existing file: two JSON texts in a row parse
\* as no table
FsWrite_Append(d, rel, text) ==
    LET p == Resolve(rel)
    IN  [d EXCEPT !.files = MapInsert(d.files, p,
                                IF p \in DOMAIN d.files THEN Garbage ELSE text)]

\* a write that merges the records of the table into those the file holds
FsWrite_Merge(d, rel, text) ==
    LET p == Resolve(rel)
        old == IF p \in DOMAIN d.files /\ d.files[p].valid
               THEN d.files[p].records ELSE EmptyMap
    IN  [d EXCEPT !.files = MapInsert(d.files, p,
            [text EXCEPT !.records =
                [k \in (DOMAIN old) \cup (DOMAIN text.records) |->
                    IF k \in DOMAIN text.records THEN text.records[k] ELSE old[k]]])]

FsWrite(d, rel, text) ==
    LET p == Resolve(rel)
    IN  [d EXCEPT !.files = MapInsert(d.files, p, text)]

\* a write that leaves the old file in place until the new text is complete
\* (temporary file, then rename)
FsTruncate_Rename(d, rel) == d

\* the first half of fs::write: File::create truncates the file; until
\* write_all has returned the file is empty or holds a prefix of the text,
\* and neither is JSON
FsTruncate(d, rel) == [d EXCEPT !.files = MapInsert(d.files, Resolve(rel), Garbage)]

\* fs::read_dir(&self.path): the names of the entries directly inside
ReadDir(d) ==
    { p[1] : p \in { q \in (DOMAIN d.files) \cup d.dirs : Len(q) = 1 } }

\* fs::read_to_string(&path) of a directory entry succeeds on a file
CanRead(d, entry) == <<entry>> \in DOMAIN d.files

\* the orders in which a finite set can be iterated
RECURSIVE Orders(_)
Orders(S) ==
    IF S = {} THEN { <<>> }
    ELSE UNION { { <<x>> \o o : o \in Orders(S \ {x}) } : x \in S }

(***************************************************************************)
(* The loops of MiniDB::save (lib.rs 47-52) and MiniDB::load (lib.rs       *)
(* 54-63) over one iteration order; ok is FALSE when an unwrap() panicked, *)
(* and the result is then what had been done up to the panic.              *)
(***************************************************************************)
\* a save that goes on with the next table when a write fails
RECURSIVE SaveLoop_Continue(_, _, _)
SaveLoop_Continue(tbls, d, order) ==
    IF order = <<>> THEN [disk |-> d, ok |-> TRUE]
    ELSE LET name == Head(order)
             file == FileNameOf(name)
         IN  IF CanWrite(d, file)
             THEN SaveLoop_Continue(tbls, FsWrite(d, file, ToStringPretty(tbls[name])),
                                    Tail(order))
             ELSE [disk |-> SaveLoop_Continue(tbls, d, Tail(order)).disk, ok |-> FALSE]

RECURSIVE SaveLoop(_, _, _)
SaveLoop(tbls, d, order) ==
    IF order = <<>> THEN [disk |-> d, ok |-> TRUE]
    ELSE LET name == Head(order)
             file == FileNameOf(name)
         IN  IF CanWrite(d, file)
             THEN SaveLoop(tbls, FsWrite(d, file, ToStringPretty(tbls[name])), Tail(order))
             ELSE [disk |-> d, ok |-> FALSE]

\* a load that drops the tables it does not find on disk
InsertLoaded_Reset(tbls, entry, table) == MapInsert(EmptyMap, table.name, table)

\* a load that merges the records of the file into the table in memory
InsertLoaded_MergeRecords(tbls, entry, table) ==
    IF table.name \in DOMAIN tbls
    THEN [tbls EXCEPT ![table.name].records =
              [i \in (DOMAIN @) \cup (DOMAIN table.records) |->
                  IF i \in DOMAIN table.records THEN table.records[i] ELSE @[i]]]
    ELSE MapInsert(tbls, table.name, table)

\* a load that keys the table by the stem of its file name
InsertLoaded_ByFileName(tbls, entry, table) ==
    MapInsert(tbls, SubSeq(entry, 1, Len(entry) - 5), table)

\* a load that keeps the table in memory when the name is already bound
InsertLoaded_KeepFirst(tbls, entry, table) ==
    IF table.name \in DOMAIN tbls THEN tbls ELSE MapInsert(tbls, table.name, table)

\* self.tables.insert(table.name.clone(), table)
InsertLoaded(tbls, entry, table) == MapInsert(tbls, table.name, table)

\* a load that reads every entry
IsJson_Any(entry) == TRUE

\* if path.extension().unwrap_or_default() == "json"
IsJson(entry) == Extension(entry) = <<"j", "s", "o", "n">>

\* a load that skips the entry it cannot read or parse and goes on
RECURSIVE LoadLoop_SkipBad(_, _, _)
LoadLoop_SkipBad(tbls, d, order) ==
    IF order = <<>> THEN [tables |-> tbls, ok |-> TRUE]
    ELSE LET entry == Head(order)
         IN  IF IsJson(entry)
             THEN IF CanRead(d, entry) /\ d.files[<<entry>>].valid
                  THEN LoadLoop_SkipBad(
                           InsertLoaded(tbls, entry, FromStr(d.files[<<entry>>])),
                           d, Tail(order))
                  ELSE [tables |-> LoadLoop_SkipBad(tbls, d, Tail(order)).tables,
                        ok |-> FALSE]
             ELSE LoadLoop_SkipBad(tbls, d, Tail(order))

RECURSIVE LoadLoop(_, _, _)
LoadLoop(tbls, d, order) ==
    IF order = <<>> THEN [tables |-> tbls, ok |-> TRUE]
    ELSE LET entry == Head(order)
         IN  IF IsJson(entry)
             THEN IF CanRead(d, entry) /\ d.files[<<entry>>].valid
                  THEN LoadLoop(InsertLoaded(tbls, entry, FromStr(d.files[<<entry>>])),
                                d, Tail(order))
                  ELSE [tables |-> tbls, ok |-> FALSE]
             ELSE LoadLoop(tbls, d, Tail(order))


(***************************************************************************)
(* State                                                                   *)
(***************************************************************************)
VARIABLES
    tables,   \* MiniDB.tables of the store db: table name -> Table
    order,    \* the order in which db's HashMap iterates its keys
    disk,     \* the directory MiniDB.path names
    tables2,  \* MiniDB.tables of a second store db2 on the same directory
    pc,       \* position of the caller in the save-and-load round trip
    last,     \* the call that made the last step: its arguments, whether it
              \* returned (ok) and what it found (found)
    nops,     \* number of calls made
    order2,   \* the order in which db2's HashMap iterates its keys
    run,      \* the save each store is in the middle of: the tables it has
              \* still to write, and whether the file of the first is open
    writer,   \* path of a file -> the store and the table that wrote it last
    scanned   \* the order in which read_dir yielded the entries to the last load

vars == <<tables, order, disk, tables2, pc, last, nops, order2, run, writer, scanned>>

\* what the calls of db alone leave as it is
rest == <<tables2, pc, order2, run, writer, scanned>>

\* no save in flight
Idle == [todo |-> <<>>, open |-> FALSE]

NoRecord == [id |-> 0, data |-> [name |-> ""]]

Call(op, name, rec, ok, found) ==
    [op |-> op, name |-> name, rec |-> rec, ok |-> ok, found |-> found]

\* what a call on table name (and record id) finds in tbls
Found(tbls, name, id) ==
    IF name \notin DOMAIN tbls THEN "no table"
    ELSE IF id \in DOMAIN tbls[name].records THEN "id bound"
    ELSE IF tbls[name].records = EmptyMap THEN "empty table"
    ELSE "other ids"

\* what a load made of the tables before it
Loaded(before, after) ==
    IF \E n \in (DOMAIN before) \cap (DOMAIN after) : after[n] # before[n] THEN "replaced"
    ELSE IF DOMAIN after # DOMAIN before THEN "added"
    ELSE "nothing"

\* a HashMap iterates in an arbitrary order, which stays the same as long as
\* no key is added: the orders it may have after a change of its keys
KeyOrders(old, keys) ==
    IF keys = { old[i] : i \in 1..Len(old) } THEN { old } ELSE Orders(keys)

\* the records of a table saved by an earlier run
OneRecord(i, d) == MapInsert(EmptyMap, i, Record(i, d))

\* directories a store can be opened on: an empty one, and one left by
\* earlier runs and by the user: the table "" in a file renamed from .json
\* to a.json, a table file renamed to n.txt, and a subdirectory s (an entry
\* without extension) holding a table file
EmptyDir == Dir(EmptyMap, {})

UsedDir ==
    Dir([p \in { <<<<"a", ".", "j", "s", "o", "n">>>>,
                 <<<<"n", ".", "t", "x", "t">>>>,
                 <<<<"s">>, <<"b", ".", "j", "s", "o", "n">>>> } |->
            IF p = <<<<"a", ".", "j", "s", "o", "n">>>>
                THEN ToStringPretty(Table(<<>>, OneRecord(10, [name |-> "Stan"])))
            ELSE ToStringPretty(Table(<<"b">>, OneRecord(9, [name |-> "Laptop"])))],
        { <<<<"s">>>> })

\* MiniDB::new (lib.rs 24-32) has returned db
InitOn(dirs) ==
    /\ tables = EmptyMap
    /\ order = <<>>
    /\ disk \in dirs
    /\ tables2 = EmptyMap
    /\ pc = "build"
    /\ last = Call("new", <<>>, NoRecord, TRUE, "")
    /\ nops = 0
    /\ order2 = <<>>
    /\ run = <<Idle, Idle>>
    /\ writer = EmptyMap
    /\ scanned = <<>>

Init == InitOn({ EmptyDir, UsedDir })

\* what MiniDB::new reports (lib.rs 25-27)
Reported(d) == IF CreateDirAll(d).exists THEN "" ELSE "Failed to create directory"

\* a constructor that unwraps the result of create_dir_all
New_Strict ==
    /\ nops < MaxOps
    /\ tables' = EmptyMap
    /\ order' = <<>>
    /\ disk' = CreateDirAll(disk)
    /\ last' = Call("new", <<>>, NoRecord, CreateDirAll(disk).exists, Reported(disk))
    /\ nops' = nops + 1

\* MiniDB::new (lib.rs 24-32): db is dropped and constructed again
New ==
    /\ nops < MaxOps
    /\ tables' = EmptyMap
    /\ order' = <<>>
    /\ disk' = CreateDirAll(disk)
    /\ last' = Call("new", <<>>, NoRecord, TRUE, Reported(disk))
    /\ nops' = nops + 1

\* create_table that keeps a table already stored under the name
CreateTableIn_KeepExisting(tbls, name) ==
    IF name \in DOMAIN tbls THEN tbls ELSE MapInsert(tbls, name, Table(name, EmptyMap))

\* a create_table that leaves the name field of the new table empty
CreateTableIn_Unnamed(tbls, name) == MapInsert(tbls, name, Table(<<>>, EmptyMap))

\* MiniDB::create_table (lib.rs 34-39)
CreateTableIn(tbls, name) == MapInsert(tbls, name, Table(name, EmptyMap))

CreateTable ==
    \E name \in TableNames :
        /\ nops < MaxOps
        /\ tables' = CreateTableIn(tables, name)
        /\ order' \in KeyOrders(order, DOMAIN tables')
        /\ last' = Call("create_table", name, NoRecord, TRUE, Found(tables, name, 0))
        /\ nops' = nops + 1
        /\ UNCHANGED disk

\* insert that creates the table it does not find
InsertIn_Upsert(tbls, name, rec) ==
    LET t == IF name \in DOMAIN tbls THEN tbls[name] ELSE Table(name, EmptyMap)
    IN  MapInsert(tbls, name, [t EXCEPT !.records = MapInsert(@, rec.id, rec)])

\* insert that keeps the record already stored under the id
InsertIn_KeepFirst(tbls, name, rec) ==
    IF name \in DOMAIN tbls /\ rec.id \notin DOMAIN tbls[name].records
    THEN [tbls EXCEPT ![name].records = MapInsert(@, rec.id, rec)]
    ELSE tbls

\* MiniDB::insert (lib.rs 41-45)
InsertIn(tbls, name, rec) ==
    IF name \in DOMAIN tbls
    THEN [tbls EXCEPT ![name].records = MapInsert(@, rec.id, rec)]
    ELSE tbls

\* an insert that writes the tables through to their files
Insert_WriteThrough ==
    \E name \in TableNames, rec \in Records :
        /\ nops < MaxOps
        /\ tables' = InsertIn(tables, name, rec)
        /\ order' \in KeyOrders(order, DOMAIN tables')
        /\ last' = Call("insert", name, rec, TRUE, Found(tables, name, rec.id))
        /\ nops' = nops + 1
        /\ disk' = SaveLoop(tables', disk, order').disk

Insert ==
    \E name \in TableNames, rec \in Records :
        /\ nops < MaxOps
        /\ tables' = InsertIn(tables, name, rec)
        /\ order' \in KeyOrders(order, DOMAIN tables')
        /\ last' = Call("insert", name, rec, TRUE, Found(tables, name, rec.id))
        /\ nops' = nops + 1
        /\ UNCHANGED disk

\* MiniDB::save (lib.rs 47-52)
Save ==
    LET r == SaveLoop(tables, disk, order)
    IN  /\ nops < MaxOps
        /\ disk' = r.disk
        /\ last' = Call("save", <<>>, NoRecord, r.ok,
                        IF last.op = "save" /\ last.ok THEN "saved before" ELSE "")
        /\ nops' = nops + 1
        /\ UNCHANGED <<tables, order>>

\* MiniDB::load (lib.rs 54-63) by a store holding tbls: the outcomes over the
\* orders in which read_dir yields the entries; read_dir(..).unwrap() panics
\* when the directory is missing
LoadOutcomes(tbls, d) ==
    IF d.exists THEN { LoadLoop(tbls, d, scan) : scan \in Orders(ReadDir(d)) }
    ELSE { [tables |-> tbls, ok |-> FALSE] }

\* a load that forgets the tables in memory before it scans the directory
Load_Fresh ==
    \E r \in LoadOutcomes(EmptyMap, disk) :
        /\ nops < MaxOps
        /\ tables' = r.tables
        /\ order' \in Orders(DOMAIN tables')
        /\ last' = Call("load", <<>>, NoRecord, r.ok, Loaded(tables, r.tables))
        /\ nops' = nops + 1
        /\ UNCHANGED disk

Load ==
    \E r \in LoadOutcomes(tables, disk) :
        /\ nops < MaxOps
        /\ tables' = r.tables
        /\ order' \in KeyOrders(order, DOMAIN tables')
        /\ last' = Call("load", <<>>, NoRecord, r.ok, Loaded(tables, r.tables))
        /\ nops' = nops + 1
        /\ UNCHANGED disk

\* one store, any calls in any order
Next ==
    \/ New /\ UNCHANGED rest
    \/ CreateTable /\ UNCHANGED rest
    \/ Insert /\ UNCHANGED rest
    \/ Save /\ UNCHANGED rest
    \/ Load /\ UNCHANGED rest

Spec == Init /\ [][Next]_vars

(***************************************************************************)
(* The round trip of test_save_and_load_database (lib.rs 134-165): db is   *)
(* built on an empty directory and saved, then db2 is constructed on the   *)
(* same directory and loads.                                               *)
(***************************************************************************)
\* let mut db2 = MiniDB::new(test_path) (lib.rs 155)
New2 ==
    /\ nops < MaxOps
    /\ tables2' = EmptyMap
    /\ disk' = CreateDirAll(disk)
    /\ last' = Call("new", <<>>, NoRecord, TRUE, Reported(disk))
    /\ nops' = nops + 1
    /\ UNCHANGED <<tables, order>>

\* db2.load() (lib.rs 156)
Load2 ==
    \E r \in LoadOutcomes(tables2, disk) :
        /\ nops < MaxOps
        /\ tables2' = r.tables
        /\ last' = Call("load", <<>>, NoRecord, r.ok, Loaded(tables2, r.tables))
        /\ nops' = nops + 1
        /\ UNCHANGED <<tables, order, disk>>

InitRT == InitOn({ EmptyDir })

NextRT ==
    \/ pc = "build" /\ CreateTable /\ UNCHANGED rest
    \/ pc = "build" /\ Insert /\ UNCHANGED rest
    \/ pc = "build" /\ Save /\ pc' = (IF last'.ok THEN "saved" ELSE "failed")
                    /\ UNCHANGED <<tables2, order2, run, writer, scanned>>
    \/ pc = "saved" /\ New2 /\ pc' = "fresh"
                    /\ UNCHANGED <<order2, run, writer, scanned>>
    \/ pc = "fresh" /\ Load2 /\ pc' = (IF last'.ok THEN "loaded" ELSE "failed")
                    /\ UNCHANGED <<order2, run, writer, scanned>>

SpecRT == InitRT /\ [][NextRT]_vars

(***************************************************************************)
(* The store in the directories that make its calls fail or depend on the  *)
(* scan: the tests remove the directory (cleanup_test_dir, lib.rs 91-95),  *)
(* and a load records the order in which read_dir yielded the entries.     *)
(***************************************************************************)
\* a path at which no directory can be created (below a file, or without
\* permission)
BlockedDir == [exists |-> FALSE, creatable |-> FALSE, files |-> EmptyMap, dirs |-> {}]

\* a directory with the table "a" in x.json, a file g.json that is no JSON,
\* and a subdirectory named a.json
BadDir ==
    Dir([p \in { <<<<"x", ".", "j", "s", "o", "n">>>>,
                 <<<<"g", ".", "j", "s", "o", "n">>>> } |->
            IF p = <<<<"x", ".", "j", "s", "o", "n">>>>
                THEN ToStringPretty(Table(<<"a">>, OneRecord(10, [name |-> "Stan"])))
            ELSE Garbage],
        { <<<<"a", ".", "j", "s", "o", "n">>>> })

\* a directory with the tables "a" and "" in the files x.json and y.json
DistinctDir ==
    Dir([p \in { <<<<"x", ".", "j", "s", "o", "n">>>>,
                 <<<<"y", ".", "j", "s", "o", "n">>>> } |->
            IF p = <<<<"x", ".", "j", "s", "o", "n">>>>
                THEN ToStringPretty(Table(<<"a">>, OneRecord(10, [name |-> "Stan"])))
            ELSE ToStringPretty(Table(<<>>, OneRecord(9, [name |-> "Laptop"])))],
        {})

\* fs::remove_dir_all(path) (lib.rs 93)
RemoveDirAll(d) == [d EXCEPT !.exists = FALSE, !.files = EmptyMap, !.dirs = {}]

\* cleanup_test_dir (lib.rs 91-95)
Cleanup ==
    /\ nops < MaxOps
    /\ disk.exists
    /\ disk' = RemoveDirAll(disk)
    /\ last' = Call("cleanup", <<>>, NoRecord, TRUE, "")
    /\ nops' = nops + 1
    /\ UNCHANGED <<tables, order>>

\* MiniDB::load (lib.rs 54-63), the scan recorded
LoadScanned ==
    \E scan \in Orders(ReadDir(disk)) :
        LET r == IF disk.exists THEN LoadLoop(tables, disk, scan)
                 ELSE [tables |-> tables, ok |-> FALSE]
        IN  /\ nops < MaxOps
            /\ tables' = r.tables
            /\ order' \in KeyOrders(order, DOMAIN tables')
            /\ last' = Call("load", <<>>, NoRecord, r.ok, Loaded(tables, r.tables))
            /\ nops' = nops + 1
            /\ scanned' = scan
            /\ UNCHANGED disk

\* what the calls other than load leave as it is
restEnv == <<tables2, pc, order2, run, writer>>

InitEnv == InitOn({ BlockedDir, BadDir })

NextEnv ==
    \/ Cleanup /\ scanned' = <<>> /\ UNCHANGED restEnv
    \/ New /\ scanned' = <<>> /\ UNCHANGED restEnv
    \/ CreateTable /\ scanned' = <<>> /\ UNCHANGED restEnv
    \/ Insert /\ scanned' = <<>> /\ UNCHANGED restEnv
    \/ Save /\ scanned' = <<>> /\ UNCHANGED restEnv
    \/ LoadScanned /\ UNCHANGED restEnv

SpecEnv == InitEnv /\ [][NextEnv]_vars

\* one store on a directory that holds several table files; a save of the
\* table "a" or "" adds a file that carries a name field a second time
InitScan == InitOn({ DistinctDir })

NextScan ==
    \/ CreateTable /\ UNCHANGED rest
    \/ Insert /\ UNCHANGED rest
    \/ Save /\ UNCHANGED rest
    \/ Load /\ UNCHANGED rest

SpecScan == InitScan /\ [][NextScan]_vars

(***************************************************************************)
(* Two stores on one directory, their saves interleaved file by file       *)
(***************************************************************************)
\* the stores the saves start from: create_table for each of names, then an
\* insert of rec into each
Filled(names, rec) == [n \in names |-> InsertIn(CreateTableIn(EmptyMap, n), n, rec)[n]]

TwoNames == { <<"a">>, <<>> }

Stores == { Filled(names, rec) : names \in (SUBSET TwoNames) \ {{}}, rec \in Records }

TablesOf(i) == IF i = 1 THEN tables ELSE tables2

OrderOf(i) == IF i = 1 THEN order ELSE order2

StoreName(i) == IF i = 1 THEN "db" ELSE "db2"

\* MiniDB::save (lib.rs 47-52) of store i: the call enters the loop over
\* &self.tables
SaveStart(i) ==
    /\ nops < MaxOps
    /\ run[i] = Idle
    /\ run' = [run EXCEPT ![i] = [todo |-> OrderOf(i), open |-> FALSE]]
    /\ last' = Call("save", <<>>, NoRecord, TRUE, StoreName(i))
    /\ nops' = nops + 1
    /\ UNCHANGED <<tables, order, tables2, order2, disk, writer>>

\* one pass of the loop (lib.rs 49-50): the file of the next table is written
SaveWrite(i) ==
    /\ run[i].todo # <<>>
    /\ ~run[i].open
    /\ LET name == Head(run[i].todo)
           file == FileNameOf(name)
       IN  IF CanWrite(disk, file)
           THEN /\ disk' = FsWrite(disk, file, ToStringPretty(TablesOf(i)[name]))
                /\ writer' = MapInsert(writer, Resolve(file), <<i, name>>)
                /\ run' = [run EXCEPT ![i].todo = Tail(@)]
                /\ last' = Call("write", name, NoRecord, TRUE, StoreName(i))
           ELSE /\ run' = [run EXCEPT ![i] = Idle]
                /\ last' = Call("write", name, NoRecord, FALSE, StoreName(i))
                /\ UNCHANGED <<disk, writer>>
    /\ UNCHANGED <<tables, order, tables2, order2, nops>>

InitTwo ==
    /\ tables \in Stores
    /\ order \in Orders(DOMAIN tables)
    /\ tables2 \in Stores
    /\ order2 \in Orders(DOMAIN tables2)
    /\ disk = EmptyDir
    /\ pc = "build"
    /\ last = Call("insert", <<"a">>, NoRecord, TRUE, "")
    /\ nops = 0
    /\ run = <<Idle, Idle>>
    /\ writer = EmptyMap
    /\ scanned = <<>>

NextTwo ==
    \/ SaveStart(1) /\ UNCHANGED <<pc, scanned>>
    \/ SaveWrite(1) /\ UNCHANGED <<pc, scanned>>
    \/ SaveStart(2) /\ UNCHANGED <<pc, scanned>>
    \/ SaveWrite(2) /\ UNCHANGED <<pc, scanned>>

SpecTwo == InitTwo /\ [][NextTwo]_vars

(***************************************************************************)
(* One store saving, the write of a file in two steps, and a second store  *)
(* loading at any time                                                     *)
(***************************************************************************)
\* fs::write (lib.rs 50), first half: the file is created or truncated
SaveOpen ==
    /\ run[1].todo # <<>>
    /\ ~run[1].open
    /\ LET name == Head(run[1].todo)
           file == FileNameOf(name)
       IN  IF CanWrite(disk, file)
           THEN /\ disk' = FsTruncate(disk, file)
                /\ run' = [run EXCEPT ![1].open = TRUE]
                /\ last' = Call("open", name, NoRecord, TRUE, "db")
           ELSE /\ run' = [run EXCEPT ![1] = Idle]
                /\ last' = Call("open", name, NoRecord, FALSE, "db")
                /\ UNCHANGED disk
    /\ UNCHANGED <<tables, order, tables2, order2, nops, writer>>

\* fs::write (lib.rs 50), second half: the text is in the file
SaveFill ==
    /\ run[1].open
    /\ LET name == Head(run[1].todo)
           file == FileNameOf(name)
       IN  /\ disk' = FsWrite(disk, file, ToStringPretty(tables[name]))
           /\ writer' = MapInsert(writer, Resolve(file), <<1, name>>)
           /\ run' = [run EXCEPT ![1] = [todo |-> Tail(@.todo), open |-> FALSE]]
           /\ last' = Call("fill", name, NoRecord, TRUE, "db")
    /\ UNCHANGED <<tables, order, tables2, order2, nops>>

\* the process of db ends in the middle of a write; the store of the next
\* process starts empty (MiniDB::new)
Crash ==
    /\ nops < MaxOps
    /\ run[1].open
    /\ run' = [run EXCEPT ![1] = Idle]
    /\ tables' = EmptyMap
    /\ order' = <<>>
    /\ last' = Call("crash", <<>>, NoRecord, TRUE, "db")
    /\ nops' = nops + 1
    /\ UNCHANGED <<tables2, order2, disk, writer>>

InitTorn ==
    /\ tables \in Stores
    /\ order \in Orders(DOMAIN tables)
    /\ tables2 = EmptyMap
    /\ order2 = <<>>
    /\ disk = EmptyDir
    /\ pc = "build"
    /\ last = Call("insert", <<"a">>, NoRecord, TRUE, "")
    /\ nops = 0
    /\ run = <<Idle, Idle>>
    /\ writer = EmptyMap
    /\ scanned = <<>>

NextTorn ==
    \/ run[1] = Idle /\ Insert /\ UNCHANGED rest
    \/ SaveStart(1) /\ UNCHANGED <<pc, scanned>>
    \/ SaveOpen /\ UNCHANGED <<pc, scanned>>
    \/ SaveFill /\ UNCHANGED <<pc, scanned>>
    \/ Crash /\ UNCHANGED <<pc, scanned>>
    \/ Load2 /\ UNCHANGED <<pc, order2, run, writer, scanned>>

SpecTorn == InitTorn /\ [][NextTorn]_vars

TypeOK ==
    /\ DOMAIN tables \subseteq TableNames
    /\ \A n \in DOMAIN tables : DOMAIN tables[n].records \subseteq Ids
    /\ order \in Orders(DOMAIN tables)
    /\ nops \in 0..MaxOps

(***************************************************************************)
(* Vocabulary of the properties                                            *)
(***************************************************************************)
\* the entry name ends in ".json" and has a stem
EndsInJson(e) ==
    Len(e) > 5 /\ SubSeq(e, Len(e) - 4, Len(e)) = <<".", "j", "s", "o", "n">>

StemOf(e) == SubSeq(e, 1, Len(e) - 5)

\* the table files of a directory: the files directly inside it whose
\* extension is json and whose text parses as a table
TableFiles(d) ==
    { e \in { p[1] : p \in { q \in DOMAIN d.files : Len(q) = 1 } } :
        EndsInJson(e) /\ d.files[<<e>>].valid }

\* the name field a table file carries
NameField(d, e) == d.files[<<e>>].name

\* the name fields of the table files
DiskNames(d) == { NameField(d, e) : e \in TableFiles(d) }

\* the tables that the table files carrying the name field n hold
OnDisk(d, n) ==
    { FromStr(d.files[<<e>>]) : e \in { f \in TableFiles(d) : NameField(d, f) = n } }

\* the path at which the operating system finds <table_name>.json in the
\* store's directory
PathOf(n) == Resolve(FileNameOf(n))

(***************************************************************************)
(* C1: round trip.  After any create_table and insert calls on a store     *)
(* whose directory started empty, and a save that completes, a new store   *)
(* constructed on the directory that loads holds exactly the tables of the *)
(* saving store.  (Specification SpecRT.)                                  *)
(***************************************************************************)
C1_RoundTrip == pc = "loaded" => tables2 = tables

\* two tables in memory whose files are one file
Aliased == \E m, n \in DOMAIN tables : m # n /\ PathOf(m) = PathOf(n)

\* what holds of the round trip: it is exact when the empty name is no table
\* and no two tables share a file
C1_RoundTripOfPlainNames ==
    (pc = "loaded" /\ <<>> \notin DOMAIN tables /\ ~Aliased) => tables2 = tables

(***************************************************************************)
(* C2: insert into a name that is no key of the table mapping returns and  *)
(* changes nothing: no table is created, every table keeps its records,    *)
(* the record is stored nowhere, the directory is untouched.               *)
(***************************************************************************)
C2_InsertMissingIsNoOp ==
    [][ (last'.op = "insert" /\ last'.name \notin DOMAIN tables)
            => /\ last'.ok
               /\ DOMAIN tables' = DOMAIN tables
               /\ \A n \in DOMAIN tables : tables'[n] = tables[n]
               /\ disk' = disk ]_vars

C2_Witness ==
    /\ last.op = "insert"
    /\ last.found = "no table"
    /\ last.name \notin DOMAIN tables
    /\ \E n \in DOMAIN tables : tables[n].records # EmptyMap

(***************************************************************************)
(* C3: insert(t, r) into an existing table t binds r.id to r in t: a       *)
(* record stored under r.id is overwritten and the count does not grow,    *)
(* the records under other ids and the other tables are unchanged; into an *)
(* empty table (one just created) it leaves exactly the one record r.      *)
(***************************************************************************)
C3_InsertBindsId ==
    [][ (last'.op = "insert" /\ last'.name \in DOMAIN tables)
            => LET t == last'.name
                   r == last'.rec
                   old == tables[t].records
                   new == tables'[t].records
               IN  /\ DOMAIN tables' = DOMAIN tables
                   /\ \A n \in DOMAIN tables \ {t} : tables'[n] = tables[n]
                   /\ tables'[t].name = tables[t].name
                   /\ DOMAIN new = (DOMAIN old) \cup {r.id}
                   /\ new[r.id] = r
                   /\ \A i \in (DOMAIN old) \ {r.id} : new[i] = old[i]
                   /\ (r.id \in DOMAIN old =>
                          Cardinality(DOMAIN new) = Cardinality(DOMAIN old))
                   /\ (old = EmptyMap => Cardinality(DOMAIN new) = 1) ]_vars

\* an insert has overwritten the record of an id in a table holding two
\* records, next to another table
C3_Witness ==
    /\ last.op = "insert"
    /\ last.found = "id bound"
    /\ last.name \in DOMAIN tables
    /\ Cardinality(DOMAIN tables[last.name].records) = 2
    /\ tables[last.name].records[last.rec.id] = last.rec
    /\ Cardinality(DOMAIN tables) > 1

(***************************************************************************)
(* C4: create_table(name) returns and leaves an empty table under name,    *)
(* whatever the name held before; every other table is unchanged.          *)
(***************************************************************************)
C4_CreateTableResets ==
    [][ last'.op = "create_table"
            => LET t == last'.name
               IN  /\ last'.ok
                   /\ DOMAIN tables' = (DOMAIN tables) \cup {t}
                   /\ tables'[t].name = t
                   /\ tables'[t].records = EmptyMap
                   /\ \A n \in DOMAIN tables \ {t} : tables'[n] = tables[n] ]_vars

\* a create_table has emptied a table that held records, next to another
\* table that holds some
C4_Witness ==
    /\ last.op = "create_table"
    /\ last.found = "other ids"
    /\ tables[last.name].records = EmptyMap
    /\ \E n \in DOMAIN tables : tables[n].records # EmptyMap

(***************************************************************************)
(* C5: load merges.  After a load that completes, every table in memory    *)
(* whose name is the name field of no table file is still there with the   *)
(* records it had, and every name a table file carries is there with a     *)
(* table that a file of that name field holds.                             *)
(***************************************************************************)
C5_LoadMerges ==
    [][ (last'.op = "load" /\ last'.ok)
            => /\ \A n \in DOMAIN tables \ DiskNames(disk) :
                      n \in DOMAIN tables' /\ tables'[n] = tables[n]
               /\ \A n \in DiskNames(disk) :
                      n \in DOMAIN tables' /\ tables'[n] \in OnDisk(disk, n) ]_vars

\* a load has added a table from disk to a memory that holds a table with
\* records which is on no file
C5_Witness ==
    /\ last.op = "load"
    /\ last.ok
    /\ last.found = "added"
    /\ \E n \in DOMAIN tables \ DiskNames(disk) : tables[n].records # EmptyMap
    /\ \E n \in DiskNames(disk) : tables[n].records # EmptyMap

(***************************************************************************)
(* C6: load replaces whole tables.  A name both in memory and in a table   *)
(* file holds, after the load, exactly a table of the files; a record id   *)
(* that only the table in memory had is gone.                              *)
(***************************************************************************)
C6_LoadReplacesTables ==
    [][ (last'.op = "load" /\ last'.ok)
            => \A n \in (DOMAIN tables) \cap DiskNames(disk) :
                   /\ tables'[n] \in OnDisk(disk, n)
                   /\ \A i \in DOMAIN tables[n].records :
                          (\A t \in OnDisk(disk, n) : i \notin DOMAIN t.records)
                              => i \notin DOMAIN tables'[n].records ]_vars

\* a load has replaced a table of the memory by the table of a file
C6_Witness ==
    /\ last.op = "load"
    /\ last.ok
    /\ last.found = "replaced"
    /\ \E n \in DiskNames(disk) :
           tables[n] \in OnDisk(disk, n) /\ Cardinality(DOMAIN tables[n].records) = 1

(***************************************************************************)
(* C7: load keys a table by its name field.  When the file x.json holds a  *)
(* table named y, y # x, the load stores under y a table the files hold    *)
(* for y, and, unless a file carries the name x, leaves the entry under x  *)
(* as it was: absent, or the table it was.                                 *)
(***************************************************************************)
C7_LoadKeysByNameField ==
    [][ (last'.op = "load" /\ last'.ok)
            => \A e \in TableFiles(disk) :
                   LET x == StemOf(e)
                       y == NameField(disk, e)
                   IN  x # y =>
                         /\ y \in DOMAIN tables'
                         /\ tables'[y] \in OnDisk(disk, y)
                         /\ tables'[y].name = y
                         /\ x \notin DiskNames(disk) =>
                                /\ x \in DOMAIN tables' <=> x \in DOMAIN tables
                                /\ x \in DOMAIN tables => tables'[x] = tables[x] ]_vars

\* a load has read a renamed file while the memory holds, under the stem of
\* the file, a table with records
C7_Witness ==
    /\ last.op = "load"
    /\ last.ok
    /\ \E e \in TableFiles(disk) :
           /\ StemOf(e) # NameField(disk, e)
           /\ StemOf(e) \notin DiskNames(disk)
           /\ StemOf(e) \in DOMAIN tables
           /\ tables[StemOf(e)].records # EmptyMap
           /\ NameField(disk, e) \in DOMAIN tables

(***************************************************************************)
(* C8: load reads only the json entries directly inside the directory.     *)
(* It removes no table; a table it adds or changes is the table of a table *)
(* file; and it fails only on a json entry it cannot read or parse.        *)
(***************************************************************************)
C8_LoadReadsOnlyJson ==
    [][ last'.op = "load"
            => /\ DOMAIN tables \subseteq DOMAIN tables'
               /\ \A n \in DOMAIN tables' :
                      (n \notin DOMAIN tables \/ tables'[n] # tables[n])
                          => tables'[n] \in OnDisk(disk, n)
               /\ ~last'.ok =>
                      \/ ~disk.exists
                      \/ \E p \in (DOMAIN disk.files) \cup disk.dirs :
                             /\ Len(p) = 1
                             /\ EndsInJson(p[1])
                             /\ p \in disk.dirs \/ ~disk.files[p].valid ]_vars

\* a load has completed on a directory that holds a table file under another
\* extension and a subdirectory with a table file, and their table is not in
\* memory
C8_Witness ==
    /\ last.op = "load"
    /\ last.ok
    /\ disk.dirs # {}
    /\ \E p \in DOMAIN disk.files :
           /\ ~EndsInJson(p[Len(p)]) \/ Len(p) > 1
           /\ disk.files[p].valid
           /\ disk.files[p].name \notin DOMAIN tables
    /\ tables # EmptyMap

(***************************************************************************)
(* C9: after a save that completes, for every table in memory the file     *)
(* <table_name>.json of the directory parses to exactly that table, and    *)
(* every file not named after a table in memory is unchanged.              *)
(***************************************************************************)
C9_SaveWritesEveryTable ==
    [][ (last'.op = "save" /\ last'.ok)
            => /\ \A n \in DOMAIN tables :
                      /\ PathOf(n) \in DOMAIN disk'.files
                      /\ disk'.files[PathOf(n)].valid
                      /\ FromStr(disk'.files[PathOf(n)]) = tables[n]
               /\ \A p \in DOMAIN disk.files :
                      p \notin { PathOf(n) : n \in DOMAIN tables }
                          => p \in DOMAIN disk'.files /\ disk'.files[p] = disk.files[p]
               /\ disk'.dirs = disk.dirs ]_vars

\* what holds of save: the same, when no two tables in memory share a file
C9_SaveOfDistinctPaths ==
    [][ (last'.op = "save" /\ last'.ok /\ ~Aliased)
            => /\ \A n \in DOMAIN tables :
                      /\ PathOf(n) \in DOMAIN disk'.files
                      /\ FromStr(disk'.files[PathOf(n)]) = tables[n]
               /\ \A p \in DOMAIN disk.files :
                      p \notin { PathOf(n) : n \in DOMAIN tables }
                          => p \in DOMAIN disk'.files /\ disk'.files[p] = disk.files[p] ]_vars

(***************************************************************************)
(* C10: save is idempotent.  A save directly after a save that completed   *)
(* completes too and leaves the directory as the first save left it.       *)
(***************************************************************************)
C10_SaveIdempotent ==
    [][ (last.op = "save" /\ last.ok /\ last'.op = "save")
            => last'.ok /\ disk' = disk ]_vars

\* a second save in a row has completed, of two tables or more, one of them
\* with records
C10_Witness ==
    /\ last.op = "save"
    /\ last.ok
    /\ last.found = "saved before"
    /\ Cardinality(DOMAIN tables) > 1
    /\ \E n \in DOMAIN tables : tables[n].records # EmptyMap

(***************************************************************************)
(* C11: construction never fails.  new returns a store with no tables;     *)
(* when the directory can be created it exists afterwards, and when it     *)
(* cannot the error is only reported.  On a store whose directory is       *)
(* missing create_table and insert act as on any store, and a save panics  *)
(* exactly when it has a table file to write.  (Specification SpecEnv.)    *)
(***************************************************************************)
C11_NewNeverFails ==
    [][ /\ last'.op = "new" =>
              /\ last'.ok
              /\ tables' = EmptyMap
              /\ disk'.files = disk.files /\ disk'.dirs = disk.dirs
              /\ (disk.exists \/ disk.creatable) =>
                     disk'.exists /\ last'.found = ""
              /\ ~(disk.exists \/ disk.creatable) =>
                     ~disk'.exists /\ last'.found = "Failed to create directory"
        /\ (~disk.exists /\ last'.op = "create_table") =>
              /\ last'.ok
              /\ disk' = disk
              /\ DOMAIN tables' = (DOMAIN tables) \cup {last'.name}
              /\ tables'[last'.name] = Table(last'.name, EmptyMap)
              /\ \A n \in DOMAIN tables \ {last'.name} : tables'[n] = tables[n]
        /\ (~disk.exists /\ last'.op = "insert") =>
              /\ last'.ok
              /\ disk' = disk
              /\ DOMAIN tables' = DOMAIN tables
              /\ last'.name \in DOMAIN tables =>
                     tables'[last'.name].records[last'.rec.id] = last'.rec
              /\ \A n \in DOMAIN tables \ {last'.name} : tables'[n] = tables[n]
        /\ (~disk.exists /\ last'.op = "save") =>
              /\ last'.ok <=> tables = EmptyMap
              /\ disk' = disk
              /\ tables' = tables ]_vars

\* a save has panicked on a store that was constructed, and filled, on a
\* path where no directory can be created
C11_Witness ==
    /\ last.op = "save"
    /\ ~last.ok
    /\ ~disk.exists
    /\ ~disk.creatable
    /\ \E n \in DOMAIN tables : tables[n].records # EmptyMap

(***************************************************************************)
(* C12: a json entry that cannot be read or parsed is fatal for the load.  *)
(* The load panics at the first such entry of the scan: a table it added   *)
(* or changed is the table of an entry scanned before that one, every      *)
(* entry scanned before it is loaded, and nothing else in memory changes.  *)
(* (Specification SpecEnv.)                                                *)
(***************************************************************************)
\* the entries directly inside the directory
Entries(d) == { p[1] : p \in { q \in (DOMAIN d.files) \cup d.dirs : Len(q) = 1 } }

\* a json entry that is a directory, or a file that is no JSON table
BadEntry(d, e) == EndsInJson(e) /\ (<<e>> \in d.dirs \/ ~d.files[<<e>>].valid)

\* position of the first bad entry in a scan that has one
FirstBad(d, scan) ==
    CHOOSE k \in 1..Len(scan) :
        BadEntry(d, scan[k]) /\ \A j \in 1..(k - 1) : ~BadEntry(d, scan[j])

\* the tables of the table files among the first k - 1 entries of the scan
\* that carry the name field n
LoadedBefore(d, scan, k, n) ==
    { FromStr(d.files[<<scan[j]>>]) :
        j \in { i \in 1..(k - 1) : scan[i] \in TableFiles(d) /\ NameField(d, scan[i]) = n } }

C12_LoadFailureIsFatal ==
    [][ (last'.op = "load" /\ disk.exists /\ \E e \in Entries(disk) : BadEntry(disk, e))
            => LET k == FirstBad(disk, scanned')
               IN  /\ ~last'.ok
                   /\ DOMAIN tables \subseteq DOMAIN tables'
                   /\ \A n \in DOMAIN tables' :
                          IF LoadedBefore(disk, scanned', k, n) # {}
                          THEN tables'[n] \in LoadedBefore(disk, scanned', k, n)
                          ELSE n \in DOMAIN tables /\ tables'[n] = tables[n]
                   /\ \A j \in 1..(k - 1) :
                          scanned'[j] \in TableFiles(disk)
                              => NameField(disk, scanned'[j]) \in DOMAIN tables' ]_vars

\* a load has panicked at a bad entry scanned before a table file, and the
\* table of that file is not in memory, which holds another table
C12_Witness ==
    /\ last.op = "load"
    /\ ~last.ok
    /\ disk.exists
    /\ tables # EmptyMap
    /\ \E j \in 1..Len(scanned) :
           /\ j > FirstBad(disk, scanned)
           /\ scanned[j] \in TableFiles(disk)
           /\ NameField(disk, scanned[j]) \notin DOMAIN tables

(***************************************************************************)
(* C13: a write failure is fatal for the save.  The save panics at the     *)
(* first table of its iteration whose file cannot be written: the tables   *)
(* before it are in their files, every other file is as it was or still    *)
(* absent, and the tables in memory are unchanged.  (Specification         *)
(* SpecEnv.)                                                               *)
(***************************************************************************)
\* the file of table n cannot be written: the directory is missing, or the
\* path is a directory
WriteFails(d, n) == ~d.exists \/ PathOf(n) \in d.dirs

\* position of the first table of the iteration whose write fails
FirstFail(d, ord) ==
    CHOOSE k \in 1..Len(ord) :
        WriteFails(d, ord[k]) /\ \A j \in 1..(k - 1) : ~WriteFails(d, ord[j])

C13_SaveFailureIsFatal ==
    [][ (last'.op = "save" /\ \E n \in DOMAIN tables : WriteFails(disk, n))
            => LET k == FirstFail(disk, order)
                   before == { PathOf(order[j]) : j \in 1..(k - 1) }
               IN  /\ ~last'.ok
                   /\ tables' = tables
                   /\ disk'.dirs = disk.dirs /\ disk'.exists = disk.exists
                   /\ DOMAIN disk'.files = (DOMAIN disk.files) \cup before
                   /\ \A p \in (DOMAIN disk.files) \ before :
                          disk'.files[p] = disk.files[p]
                   /\ \A j \in 1..(k - 1) :
                          (\A i \in (j + 1)..(k - 1) : PathOf(order[i]) # PathOf(order[j]))
                              => /\ disk'.files[PathOf(order[j])].valid
                                 /\ FromStr(disk'.files[PathOf(order[j])]) = tables[order[j]]
             ]_vars

\* a save has panicked at its first table, and the file of the table after
\* it, which could be written, is absent
C13_Witness ==
    /\ last.op = "save"
    /\ ~last.ok
    /\ disk.exists
    /\ Len(order) = 2
    /\ WriteFails(disk, order[1])
    /\ ~WriteFails(disk, order[2])
    /\ PathOf(order[2]) \notin DOMAIN disk.files

(***************************************************************************)
(* C19: load is deterministic when the table files carry pairwise distinct *)
(* name fields: whatever the scan, the memory after a load that completes  *)
(* is the memory before it with every name field bound to the table of its *)
(* file.  (Specification SpecScan.)                                        *)
(***************************************************************************)
DistinctNameFields(d) ==
    \A e, f \in TableFiles(d) : NameField(d, e) = NameField(d, f) => e = f

C19_LoadDeterministic ==
    [][ (last'.op = "load" /\ last'.ok /\ DistinctNameFields(disk))
            => tables' = [n \in (DOMAIN tables) \cup DiskNames(disk) |->
                            IF n \in DiskNames(disk)
                            THEN CHOOSE t \in OnDisk(disk, n) : TRUE
                            ELSE tables[n]] ]_vars

\* a load has completed on two table files or more of distinct name fields
\* and has replaced a table
C19_Witness ==
    /\ last.op = "load"
    /\ last.ok
    /\ last.found = "replaced"
    /\ DistinctNameFields(disk)
    /\ Cardinality(TableFiles(disk)) > 1

(***************************************************************************)
(* C14: every table in memory is stored under the key that is its name     *)
(* field, in every reachable state, also after a load of a file whose      *)
(* name is not the name field of its table; the file a save writes for a   *)
(* key is therefore the file of the table's name field.                    *)
(***************************************************************************)
C14_KeyIsNameField ==
    \A n \in DOMAIN tables : tables[n].name = n /\ PathOf(tables[n].name) = PathOf(n)

\* a load has put into memory the table of a file that is not named after
\* the name field, next to a table that was created
C14_Witness ==
    /\ last.op = "load"
    /\ last.ok
    /\ \E e \in TableFiles(disk) :
           /\ StemOf(e) # NameField(disk, e)
           /\ NameField(disk, e) \in DOMAIN tables
           /\ tables[NameField(disk, e)] = FromStr(disk.files[<<e>>])
    /\ \E n \in DOMAIN tables : n \notin DiskNames(disk)

(***************************************************************************)
(* C15: save is order-insensitive.  A save that completes leaves the       *)
(* directory that a save iterating the tables in any other order leaves.   *)
(***************************************************************************)
C15_SaveOrderInsensitive ==
    [][ (last'.op = "save" /\ last'.ok)
            => \A o \in Orders(DOMAIN tables) :
                   SaveLoop(tables, disk, o) = [disk |-> disk', ok |-> TRUE] ]_vars

\* what holds of save: the same, when no two tables in memory share a file
C15_SaveOrderOfDistinctPaths ==
    [][ (last'.op = "save" /\ last'.ok /\ ~Aliased)
            => \A o \in Orders(DOMAIN tables) :
                   SaveLoop(tables, disk, o) = [disk |-> disk', ok |-> TRUE] ]_vars

(***************************************************************************)
(* C18: tables never disappear.  A create_table, insert, save or load      *)
(* keeps every table name of the memory and every file and subdirectory    *)
(* of the directory; a table loses a record only in a create_table or a    *)
(* load.                                                                   *)
(***************************************************************************)
C18_NamesAndFilesOnlyGrow ==
    [][ last'.op \in {"create_table", "insert", "save", "load"}
            => /\ DOMAIN tables \subseteq DOMAIN tables'
               /\ DOMAIN disk.files \subseteq DOMAIN disk'.files
               /\ disk.dirs \subseteq disk'.dirs
               /\ disk.exists => disk'.exists
               /\ (\E n \in DOMAIN tables :
                       ~(DOMAIN tables[n].records \subseteq DOMAIN tables'[n].records))
                      => last'.op \in {"create_table", "load"} ]_vars

\* a load has replaced a table and memory still holds a table that no file
\* carries
C18_Witness ==
    /\ last.op = "load"
    /\ last.ok
    /\ last.found = "replaced"
    /\ \E n \in DOMAIN tables : n \notin DiskNames(disk) /\ tables[n].records # EmptyMap

(***************************************************************************)
(* C20: memory and disk change only through their own operations.  A       *)
(* create_table or insert leaves the directory as it is, so the table      *)
(* files another store loads from it hold the tables they held before the  *)
(* call; a save leaves the tables in memory as they are.                   *)
(***************************************************************************)
C20_MemoryAndDiskApart ==
    [][ /\ last'.op \in {"create_table", "insert"}
            => /\ disk' = disk
               /\ TableFiles(disk') = TableFiles(disk)
               /\ \A e \in TableFiles(disk) :
                      FromStr(disk'.files[<<e>>]) = FromStr(disk.files[<<e>>])
        /\ last'.op = "save" => tables' = tables /\ order' = order ]_vars

\* an insert has changed a table whose file, saved before, still holds the
\* table without the record
C20_Witness ==
    /\ last.op = "insert"
    /\ last.found = "empty table"
    /\ PathOf(last.name) \in DOMAIN disk.files
    /\ disk.files[PathOf(last.name)].valid
    /\ FromStr(disk.files[PathOf(last.name)]) = Table(last.name, EmptyMap)
    /\ tables[last.name].records # EmptyMap
    /\ \A r \in LoadOutcomes(EmptyMap, disk) :
           last.name \in DOMAIN r.tables => r.tables[last.name].records = EmptyMap

(***************************************************************************)
(* C16: with two stores on one directory whose saves interleave file by    *)
(* file, the last writer of each file wins: at every moment every file of  *)
(* the directory holds exactly the table of the store that wrote it last,  *)
(* with no record of a table written there before.  (Specification         *)
(* SpecTwo, in which the stores do not change while the saves run.)        *)
(***************************************************************************)
C16_LastWriterWins ==
    /\ DOMAIN disk.files = DOMAIN writer
    /\ \A p \in DOMAIN writer :
           LET t == TablesOf(writer[p][1])[writer[p][2]]
           IN  /\ PathOf(writer[p][2]) = p
               /\ disk.files[p].valid
               /\ FromStr(disk.files[p]) = t
               /\ DOMAIN disk.files[p].records = { U64ToStr(i) : i \in DOMAIN t.records }

\* both stores have saved their two tables, which differ; the directory holds
\* the table "a" of db and the table "" of db2
C16_Witness ==
    /\ run = <<Idle, Idle>>
    /\ DOMAIN tables = TwoNames
    /\ DOMAIN tables2 = TwoNames
    /\ \A n \in TwoNames : DOMAIN tables[n].records # DOMAIN tables2[n].records
    /\ DOMAIN writer = { PathOf(n) : n \in TwoNames }
    /\ writer[PathOf(<<"a">>)][1] = 1
    /\ writer[PathOf(<<>>)][1] = 2
    /\ FromStr(disk.files[PathOf(<<"a">>)]) = tables[<<"a">>]
    /\ FromStr(disk.files[PathOf(<<>>)]) = tables2[<<>>]

(***************************************************************************)
(* C17: the write of a table file is not atomic.  Once the write of a file *)
(* that held a table has started, the file holds neither that table nor    *)
(* the new one, and no table at all; a load by another store that finds a  *)
(* json file in this state panics, and the tables it has put into memory   *)
(* come from the other files.  (Specification SpecTorn.)                   *)
(***************************************************************************)
\* a json entry directly inside the directory whose text is no table
Torn(d) == { e \in Entries(d) : BadEntry(d, e) }

C17_WriteNotAtomic ==
    [][ /\ (/\ last'.op = "open"
            /\ last'.ok
            /\ PathOf(last'.name) \in DOMAIN disk.files
            /\ disk.files[PathOf(last'.name)].valid)
            => LET p == PathOf(last'.name)
               IN  /\ ~disk'.files[p].valid
                   /\ disk'.files[p] # disk.files[p]
                   /\ disk'.files[p] # ToStringPretty(tables[last'.name])
        /\ (last'.op = "load" /\ Torn(disk) # {})
            => /\ ~last'.ok
               /\ \A n \in DOMAIN tables2' :
                      \/ n \in DOMAIN tables2 /\ tables2'[n] = tables2[n]
                      \/ tables2'[n] \in OnDisk(disk, n) ]_vars

\* a load by db2 has panicked while db is in the middle of writing a file
\* that it had written before, and db2 does not hold the table of that file
C17_Witness ==
    /\ last.op = "load"
    /\ ~last.ok
    /\ run[1].open
    /\ LET n == Head(run[1].todo)
       IN  /\ PathOf(n) \in DOMAIN writer
           /\ ~disk.files[PathOf(n)].valid
           /\ n \notin DOMAIN tables2

====
